---------------------------- MODULE Spec2Model ----------------------------
(***************************************************************************)
(* A model of the GitHub search tool: github_search_agent/                 *)
(* github_search_tool.py (the "agent" copy) and scripts/                   *)
(* github_search_tool.py (the "scripts" copy).                             *)
(*                                                                         *)
(* Text the code builds or takes apart (keywords, filters, the query, the  *)
(* suggestions, a README) is a sequence of one-character strings; text it  *)
(* only passes through (the fields of a provider record, the sort key) is  *)
(* a string.  An optional value (a Python None, a JSON key that may be     *)
(* absent) is <<>> when absent and <<v>> when present.                     *)
(***************************************************************************)
EXTENDS Integers, Sequences, FiniteSets, TLC

VARIABLES
    copy,          \* which source copy runs: "agent" or "scripts"
    pc,            \* the position of main(), or of a directly called method
    argv,          \* args.parameters: the JSON document handed to the process
    params,        \* the parsed SearchParameters, <<>> before parsing
    client,        \* self.client: "none", "open" or "closed"
    closes,        \* how many times tool.close() has run
    calls,         \* the network requests issued so far, in order
    search_resp,   \* the provider's answer to the search request, <<>> before it
    items,         \* data.get("items", []) of the search response
    repositories,  \* the list search_repositories is building
    fetches,       \* per item fetched so far: "off", "failed", "empty", "text"
    output,        \* main's local `output`, <<>> until format_output returned
    exc,           \* the exception in flight, <<>> when none
    stdout,        \* the documents printed to standard output
    stderr,        \* the documents printed to standard error
    exit_code,     \* <<>> while running, <<0>> or <<1>> once the process ended
    arg,           \* the argument of a directly called method
    ret,           \* the value a directly called method returned
    remote,        \* the provider's answers when fixed beforehand, <<>> when free
    earlier        \* what an earlier run on the same answers did, <<>> when none

vars == << copy, pc, argv, params, client, closes, calls, search_resp, items, repositories,
           fetches, output, exc, stdout, stderr, exit_code, arg, ret,
           remote, earlier >>

-----------------------------------------------------------------------------
(* Bounds of the model.                                                    *)

MaxItems == 2

-----------------------------------------------------------------------------
(* Text.                                                                   *)

None == <<>>

Some(v) == <<v>>

SP == " "

QUOTE == "\""

IsSpace(c) == c \in {" ", "\n", "\t"}

UpperAlpha == <<"A", "B", "C", "D", "E", "F", "G", "H", "I", "J", "K", "L", "M",
                "N", "O", "P", "Q", "R", "S", "T", "U", "V", "W", "X", "Y", "Z">>

LowerAlpha == <<"a", "b", "c", "d", "e", "f", "g", "h", "i", "j", "k", "l", "m",
                "n", "o", "p", "q", "r", "s", "t", "u", "v", "w", "x", "y", "z">>

LowerChar(c) ==
    IF \E i \in 1..26 : UpperAlpha[i] = c
    THEN LowerAlpha[CHOOSE i \in 1..26 : UpperAlpha[i] = c]
    ELSE c

\* str.lower()
lower(s) == [i \in 1..Len(s) |-> LowerChar(s[i])]

Digits == <<"0", "1", "2", "3", "4", "5", "6", "7", "8", "9">>

RECURSIVE str_nat(_)
str_nat(n) ==
    IF n < 10 THEN <<Digits[n + 1]>>
    ELSE str_nat(n \div 10) \o <<Digits[(n % 10) + 1]>>

\* the decimal text an f-string gives an int
str_int(n) == IF n < 0 THEN <<"-">> \o str_nat(-n) ELSE str_nat(n)

RECURSIVE join(_, _)
\* sep.join(parts)
join(sep, parts) ==
    IF parts = <<>> THEN <<>>
    ELSE IF Len(parts) = 1 THEN parts[1]
    ELSE parts[1] \o sep \o join(sep, Tail(parts))

RECURSIVE split(_)
\* str.split(): the maximal runs of non-whitespace characters
split(s) ==
    IF s = <<>> THEN <<>>
    ELSE IF IsSpace(s[1]) THEN split(Tail(s))
    ELSE LET stops == {i \in 1..Len(s) : IsSpace(s[i])}
             n == IF stops = {} THEN Len(s) + 1
                  ELSE CHOOSE i \in stops : \A j \in stops : i <= j
         IN  <<SubSeq(s, 1, n - 1)>> \o split(SubSeq(s, n, Len(s)))

RECURSIVE replace(_, _, _)
\* str.replace(old, new): every non-overlapping occurrence, left to right
replace(s, old, new) ==
    IF Len(s) < Len(old) THEN s
    ELSE IF SubSeq(s, 1, Len(old)) = old
         THEN new \o replace(SubSeq(s, Len(old) + 1, Len(s)), old, new)
         ELSE <<s[1]>> \o replace(Tail(s), old, new)

\* `sub in s` for two strings
contains(s, sub) ==
    \E i \in 1..(Len(s) - Len(sub) + 1) : SubSeq(s, i, i + Len(sub) - 1) = sub

\* `x in xs` for a list
member(x, xs) == \E i \in 1..Len(xs) : xs[i] = x

\* the truth value Python gives an Optional[str]: None and "" are false
truthy(opt) == opt # None /\ opt[1] # <<>>

\* Python's min of two ints
min(a, b) == IF b < a THEN b ELSE a

abbreviations ==
    << <<<<"m", "l">>,
          <<"m", "a", "c", "h", "i", "n", "e", " ", "l", "e", "a", "r", "n", "i", "n", "g">>>>,
       <<<<"a", "i">>,
          <<"a", "r", "t", "i", "f", "i", "c", "i", "a", "l", " ", "i", "n", "t", "e", "l", "l", "i", "g", "e", "n", "c", "e">>>>,
       <<<<"d", "l">>,
          <<"d", "e", "e", "p", " ", "l", "e", "a", "r", "n", "i", "n", "g">>>>,
       <<<<"n", "l", "p">>,
          <<"n", "a", "t", "u", "r", "a", "l", " ", "l", "a", "n", "g", "u", "a", "g", "e", " ", "p", "r", "o", "c", "e", "s", "s", "i", "n", "g">>>>,
       <<<<"c", "v">>,
          <<"c", "o", "m", "p", "u", "t", "e", "r", " ", "v", "i", "s", "i", "o", "n">>>>,
       <<<<"e", "d", "a">>,
          <<"e", "x", "p", "l", "o", "r", "a", "t", "o", "r", "y", " ", "d", "a", "t", "a", " ", "a", "n", "a", "l", "y", "s", "i", "s">>>>,
       <<<<"e", "t", "l">>,
          <<"e", "x", "t", "r", "a", "c", "t", " ", "t", "r", "a", "n", "s", "f", "o", "r", "m", " ", "l", "o", "a", "d">>>>,
       <<<<"a", "p", "i">>,
          <<"a", "p", "p", "l", "i", "c", "a", "t", "i", "o", "n", " ", "p", "r", "o", "g", "r", "a", "m", "m", "i", "n", "g", " ", "i", "n", "t", "e", "r", "f", "a", "c", "e">>>>,
       <<<<"c", "l", "i">>,
          <<"c", "o", "m", "m", "a", "n", "d", " ", "l", "i", "n", "e">>>>,
       <<<<"g", "u", "i">>,
          <<"g", "r", "a", "p", "h", "i", "c", "a", "l", " ", "u", "s", "e", "r", " ", "i", "n", "t", "e", "r", "f", "a", "c", "e">>>>,
       <<<<"d", "b">>,
          <<"d", "a", "t", "a", "b", "a", "s", "e">>>>,
       <<<<"a", "u", "t", "h">>,
          <<"a", "u", "t", "h", "e", "n", "t", "i", "c", "a", "t", "i", "o", "n">>>>,
       <<<<"a", "u", "t", "o">>,
          <<"a", "u", "t", "o", "m", "a", "t", "e", "d", " ", "O", "R", " ", "a", "u", "t", "o", "m", "a", "t", "i", "c">>>> >>

topic_suggestions ==
    << <<<<"d", "a", "t", "a", " ", "a", "n", "a", "l", "y", "s", "i", "s">>,
          <<"d", "a", "t", "a", "-", "s", "c", "i", "e", "n", "c", "e">>>>,
       <<<<"m", "a", "c", "h", "i", "n", "e", " ", "l", "e", "a", "r", "n", "i", "n", "g">>,
          <<"m", "a", "c", "h", "i", "n", "e", "-", "l", "e", "a", "r", "n", "i", "n", "g">>>>,
       <<<<"w", "e", "b", " ", "f", "r", "a", "m", "e", "w", "o", "r", "k">>,
          <<"w", "e", "b">>>>,
       <<<<"a", "u", "t", "o", "m", "a", "t", "i", "o", "n">>,
          <<"a", "u", "t", "o", "m", "a", "t", "i", "o", "n">>>>,
       <<<<"v", "i", "s", "u", "a", "l", "i", "z", "a", "t", "i", "o", "n">>,
          <<"d", "a", "t", "a", "-", "v", "i", "s", "u", "a", "l", "i", "z", "a", "t", "i", "o", "n">>>>,
       <<<<"a", "p", "i">>,
          <<"a", "p", "i">>>>,
       <<<<"c", "l", "i">>,
          <<"c", "l", "i">>>>,
       <<<<"t", "e", "s", "t", "i", "n", "g">>,
          <<"t", "e", "s", "t", "i", "n", "g">>>> >>

LanguagePrefix ==
    <<"l", "a", "n", "g", "u", "a", "g", "e", ":">>

StarsPrefix ==
    <<"s", "t", "a", "r", "s", ":", ">", "=">>

TopicPrefix ==
    <<"t", "o", "p", "i", "c", ":">>

TruncationMarker ==
    <<"\n", "\n", "[", "R", "E", "A", "D", "M", "E", " ", "t", "r", "u", "n", "c", "a",
      "t", "e", "d", ".", ".", ".", "]">>

MsgExpand ==
    <<"T", "r", "y", " ", "e", "x", "p", "a", "n", "d", "i", "n", "g", " ", "a", "b", "b",
      "r", "e", "v", "i", "a", "t", "i", "o", "n", "s", ":", " ", "\"">>

MsgLowerFrom ==
    <<"T", "r", "y", " ", "l", "o", "w", "e", "r", "i", "n", "g", " ", "m", "i", "n", "_",
      "s", "t", "a", "r", "s", " ", "f", "r", "o", "m", " ">>

MsgTo ==
    <<" ", "t", "o", " ">>

MsgOr50 ==
    <<" ", "o", "r", " ", "5", "0">>

MsgNoLanguage ==
    <<"T", "r", "y", " ", "s", "e", "a", "r", "c", "h", "i", "n", "g", " ", "w", "i", "t",
      "h", "o", "u", "t", " ", "t", "h", "e", " ", "l", "a", "n", "g", "u", "a", "g", "e",
      " ", "f", "i", "l", "t", "e", "r", " ", "(", "r", "e", "m", "o", "v", "e", " ", "l",
      "a", "n", "g", "u", "a", "g", "e", ":", " ", "\"">>

MsgClose ==
    <<"\"", ")">>

MsgFewer ==
    <<"T", "r", "y", " ", "u", "s", "i", "n", "g", " ", "f", "e", "w", "e", "r", " ", "k",
      "e", "y", "w", "o", "r", "d", "s", ":", " ", "\"">>

MsgTopic ==
    <<"T", "r", "y", " ", "a", "d", "d", "i", "n", "g", " ", "t", "o", "p", "i", "c", " ",
      "f", "i", "l", "t", "e", "r", ":", " ", "t", "o", "p", "i", "c", ":", "\"">>

MsgGeneral ==
    <<"T", "r", "y", " ", "u", "s", "i", "n", "g", " ", "m", "o", "r", "e", " ", "g", "e",
      "n", "e", "r", "a", "l", " ", "o", "r", " ", "a", "l", "t", "e", "r", "n", "a", "t",
      "i", "v", "e", " ", "k", "e", "y", "w", "o", "r", "d", "s">>

MsgSpelling ==
    <<"C", "h", "e", "c", "k", " ", "s", "p", "e", "l", "l", "i", "n", "g", " ", "a", "n",
      "d", " ", "t", "r", "y", " ", "c", "o", "m", "m", "o", "n", " ", "s", "y", "n", "o",
      "n", "y", "m", "s">>

MsgNoResults ==
    <<"N", "o", " ", "r", "e", "p", "o", "s", "i", "t", "o", "r", "i", "e", "s", " ", "f",
      "o", "u", "n", "d", " ", "m", "a", "t", "c", "h", "i", "n", "g", " ", "y", "o", "u",
      "r", " ", "c", "r", "i", "t", "e", "r", "i", "a", ".", " ", "S", "e", "e", " ", "s",
      "u", "g", "g", "e", "s", "t", "i", "o", "n", "s", " ", "f", "o", "r", " ", "a", "l",
      "t", "e", "r", "n", "a", "t", "i", "v", "e", " ", "s", "e", "a", "r", "c", "h", "e",
      "s", ".">>

-----------------------------------------------------------------------------
(* The pure methods of GitHubSearchTool and parse_parameters.              *)

max_length == 5000

DefaultMaxResults == 5

MaxPerPage == 10

DefaultMinStars == 0

\* the value of an optional JSON key, or the default: dict.get(key, default)
get(opt, default) == IF opt = None THEN default ELSE opt[1]

\* parse_raises with data["keywords"] read before the membership test: a KeyError
parse_raises_keyerror(doc) ==
    IF ~doc.valid THEN Some("ValueError")
    ELSE IF doc.data.keywords = None THEN Some("KeyError")
    ELSE None

\* the exception class parse_parameters raises on this document, if any
parse_raises(doc) ==
    IF ~doc.valid THEN Some("ValueError")
    ELSE IF doc.data.keywords = None THEN Some("ValueError")
    ELSE None

\* parse_parameters without its reading of the include_readme key
parse_parameters_readme_unread(cp, doc) ==
    LET data == doc.data
        base == [ keywords       |-> data.keywords[1],
                  language       |-> data.language,
                  min_stars      |-> get(data.min_stars, DefaultMinStars),
                  topic          |-> data.topic,
                  sort_by        |-> get(data.sort_by, "stars"),
                  max_results    |-> min(get(data.max_results, DefaultMaxResults), MaxPerPage),
                  include_readme |-> TRUE ]
    IN  IF cp = "agent"
        THEN base @@ [fallback_search |-> get(data.fallback_search, TRUE)]
        ELSE base

\* the SearchParameters parse_parameters returns for a document it accepts
parse_parameters(cp, doc) ==
    LET data == doc.data
        base == [ keywords       |-> data.keywords[1],
                  language       |-> data.language,
                  min_stars      |-> get(data.min_stars, DefaultMinStars),
                  topic          |-> data.topic,
                  sort_by        |-> get(data.sort_by, "stars"),
                  max_results    |-> min(get(data.max_results, DefaultMaxResults), MaxPerPage),
                  include_readme |-> get(data.include_readme, TRUE) ]
    IN  IF cp = "agent"
        THEN base @@ [fallback_search |-> get(data.fallback_search, TRUE)]
        ELSE base

\* _build_search_query with min_stars >= 0 for its test min_stars > 0
_build_search_query_stars_ge(p) ==
    LET keywords == <<p.keywords>>
        language == IF truthy(p.language)
                    THEN <<LanguagePrefix \o p.language[1]>> ELSE <<>>
        stars    == IF p.min_stars >= 0
                    THEN <<StarsPrefix \o str_int(p.min_stars)>> ELSE <<>>
        topic    == IF truthy(p.topic)
                    THEN <<TopicPrefix \o p.topic[1]>> ELSE <<>>
    IN  join(<<SP>>, keywords \o language \o stars \o topic)

_build_search_query(p) ==
    LET keywords == <<p.keywords>>
        language == IF truthy(p.language)
                    THEN <<LanguagePrefix \o p.language[1]>> ELSE <<>>
        stars    == IF p.min_stars > 0
                    THEN <<StarsPrefix \o str_int(p.min_stars)>> ELSE <<>>
        topic    == IF truthy(p.topic)
                    THEN <<TopicPrefix \o p.topic[1]>> ELSE <<>>
    IN  join(<<SP>>, keywords \o language \o stars \o topic)

\* sort_mapping.get(params.sort_by, "stars")
sort_mapping(sort_by) ==
    IF sort_by \in {"stars", "forks", "updated", "help-wanted-issues"}
    THEN sort_by ELSE "stars"

\* the request search_repositories sends
search_request(p) ==
    [ endpoint |-> "/search/repositories",
      q        |-> _build_search_query(p),
      sort     |-> sort_mapping(p.sort_by),
      order    |-> "desc",
      per_page |-> min(p.max_results, MaxPerPage) ]

\* the request _fetch_readme sends
readme_request(full_name) == [endpoint |-> "/repos/{full_name}/readme", full_name |-> full_name]

\* _generate_search_suggestions with min_stars >= 100 for its test min_stars > 100
_generate_search_suggestions_stars_ge(p) ==
    LET keywords == lower(p.keywords)
        tokens   == split(keywords)
        hits     == {i \in 1..Len(abbreviations) : member(abbreviations[i][1], tokens)}
        first    == CHOOSE i \in hits : \A j \in hits : i <= j
        expand   == IF hits = {} THEN <<>>
                    ELSE <<MsgExpand
                           \o replace(keywords, abbreviations[first][1], abbreviations[first][2])
                           \o <<QUOTE>>>>
        stars    == IF p.min_stars >= 100
                    THEN <<MsgLowerFrom \o str_int(p.min_stars) \o MsgTo
                           \o str_int(p.min_stars \div 2) \o MsgOr50>>
                    ELSE <<>>
        language == IF truthy(p.language)
                    THEN <<MsgNoLanguage \o p.language[1] \o MsgClose>> ELSE <<>>
        keyword_list == split(p.keywords)
        fewer    == IF Len(keyword_list) > 2
                    THEN <<MsgFewer \o join(<<SP>>, SubSeq(keyword_list, 1, 2)) \o <<QUOTE>>>>
                    ELSE <<>>
        thits    == {i \in 1..Len(topic_suggestions) :
                        contains(keywords, topic_suggestions[i][1])}
        tfirst   == CHOOSE i \in thits : \A j \in thits : i <= j
        topic    == IF ~truthy(p.topic) /\ thits # {}
                    THEN <<MsgTopic \o topic_suggestions[tfirst][2] \o <<QUOTE>>>>
                    ELSE <<>>
        suggestions == expand \o stars \o language \o fewer \o topic
    IN  IF suggestions = <<>> THEN <<MsgGeneral, MsgSpelling>> ELSE suggestions

\* _generate_search_suggestions without its test `if not suggestions`
_generate_search_suggestions_always_generic(p) ==
    LET keywords == lower(p.keywords)
        tokens   == split(keywords)
        hits     == {i \in 1..Len(abbreviations) : member(abbreviations[i][1], tokens)}
        first    == CHOOSE i \in hits : \A j \in hits : i <= j
        expand   == IF hits = {} THEN <<>>
                    ELSE <<MsgExpand
                           \o replace(keywords, abbreviations[first][1], abbreviations[first][2])
                           \o <<QUOTE>>>>
        stars    == IF p.min_stars > 100
                    THEN <<MsgLowerFrom \o str_int(p.min_stars) \o MsgTo
                           \o str_int(p.min_stars \div 2) \o MsgOr50>>
                    ELSE <<>>
        language == IF truthy(p.language)
                    THEN <<MsgNoLanguage \o p.language[1] \o MsgClose>> ELSE <<>>
        keyword_list == split(p.keywords)
        fewer    == IF Len(keyword_list) > 2
                    THEN <<MsgFewer \o join(<<SP>>, SubSeq(keyword_list, 1, 2)) \o <<QUOTE>>>>
                    ELSE <<>>
        thits    == {i \in 1..Len(topic_suggestions) :
                        contains(keywords, topic_suggestions[i][1])}
        tfirst   == CHOOSE i \in thits : \A j \in thits : i <= j
        topic    == IF ~truthy(p.topic) /\ thits # {}
                    THEN <<MsgTopic \o topic_suggestions[tfirst][2] \o <<QUOTE>>>>
                    ELSE <<>>
        suggestions == expand \o stars \o language \o fewer \o topic
    IN  suggestions \o <<MsgGeneral, MsgSpelling>>

_generate_search_suggestions(p) ==
    LET keywords == lower(p.keywords)
        tokens   == split(keywords)
        hits     == {i \in 1..Len(abbreviations) : member(abbreviations[i][1], tokens)}
        first    == CHOOSE i \in hits : \A j \in hits : i <= j
        expand   == IF hits = {} THEN <<>>
                    ELSE <<MsgExpand
                           \o replace(keywords, abbreviations[first][1], abbreviations[first][2])
                           \o <<QUOTE>>>>
        stars    == IF p.min_stars > 100
                    THEN <<MsgLowerFrom \o str_int(p.min_stars) \o MsgTo
                           \o str_int(p.min_stars \div 2) \o MsgOr50>>
                    ELSE <<>>
        language == IF truthy(p.language)
                    THEN <<MsgNoLanguage \o p.language[1] \o MsgClose>> ELSE <<>>
        keyword_list == split(p.keywords)
        fewer    == IF Len(keyword_list) > 2
                    THEN <<MsgFewer \o join(<<SP>>, SubSeq(keyword_list, 1, 2)) \o <<QUOTE>>>>
                    ELSE <<>>
        thits    == {i \in 1..Len(topic_suggestions) :
                        contains(keywords, topic_suggestions[i][1])}
        tfirst   == CHOOSE i \in thits : \A j \in thits : i <= j
        topic    == IF ~truthy(p.topic) /\ thits # {}
                    THEN <<MsgTopic \o topic_suggestions[tfirst][2] \o <<QUOTE>>>>
                    ELSE <<>>
        suggestions == expand \o stars \o language \o fewer \o topic
    IN  IF suggestions = <<>> THEN <<MsgGeneral, MsgSpelling>> ELSE suggestions

\* the keys of a provider record that search_repositories reads with item[...]
RequiredKeys == { "name", "full_name", "html_url", "stargazers_count", "forks_count",
                  "created_at", "updated_at", "pushed_at", "open_issues_count" }

\* item.get(key) for an optional key of a provider record
item_get(item, key) == IF key \in DOMAIN item THEN item[key] ELSE None

\* the Repository search_repositories constructs from a provider record
Repository(item) ==
    [ name           |-> item.name,
      full_name      |-> item.full_name,
      description    |-> item_get(item, "description"),
      url            |-> item.html_url,
      stars          |-> item.stargazers_count,
      forks          |-> item.forks_count,
      language       |-> item_get(item, "language"),
      topics         |-> IF "topics" \in DOMAIN item THEN item.topics ELSE <<>>,
      created_at     |-> item.created_at,
      updated_at     |-> item.updated_at,
      pushed_at      |-> item.pushed_at,
      open_issues    |-> item.open_issues_count,
      license        |-> IF item_get(item, "license") # None
                         THEN item.license[1].spdx_id ELSE None,
      readme_content |-> None ]

\* httpx.Response.is_success
is_success(status) == 200 <= status /\ status <= 299

\* base64.b64decode(content).decode("utf-8"), raising on bad input (None here)
b64decode_utf8(content) ==
    IF content.b64 /\ content.utf8 THEN Some(content.text) ELSE None

\* truncate with len(decoded) >= max_length for its test len(decoded) > max_length
truncate_at_limit(decoded) ==
    IF Len(decoded) >= max_length
    THEN SubSeq(decoded, 1, max_length) \o TruncationMarker
    ELSE decoded

\* the decoded text after the length check of _fetch_readme
truncate(decoded) ==
    IF Len(decoded) > max_length
    THEN SubSeq(decoded, 1, max_length) \o TruncationMarker
    ELSE decoded

\* _fetch_readme returning "" for None where the provider answers 404
_fetch_readme_empty_text(resp) ==
    IF resp.kind = "transport_error" THEN None
    ELSE IF resp.status = 404 THEN Some(<<>>)
    ELSE IF ~is_success(resp.status) THEN None
    ELSE IF resp.body.json # "object" THEN None
    ELSE LET content == get(resp.body.content, [blank |-> TRUE])
         IN  IF content.blank THEN None
             ELSE IF b64decode_utf8(content) = None THEN None
             ELSE Some(truncate(b64decode_utf8(content)[1]))

\* what _fetch_readme returns for the provider's answer to its request
_fetch_readme(resp) ==
    IF resp.kind = "transport_error" THEN None
    ELSE IF resp.status = 404 THEN None
    ELSE IF ~is_success(resp.status) THEN None
    ELSE IF resp.body.json # "object" THEN None
    ELSE LET content == get(resp.body.content, [blank |-> TRUE])
         IN  IF content.blank THEN None
             ELSE IF b64decode_utf8(content) = None THEN None
             ELSE Some(truncate(b64decode_utf8(content)[1]))

\* the dictionary format_output makes of a Repository
repo_dict(repo) ==
    [ name        |-> repo.name,
      full_name   |-> repo.full_name,
      description |-> repo.description,
      url         |-> repo.url,
      stars       |-> repo.stars,
      forks       |-> repo.forks,
      language    |-> repo.language,
      topics      |-> repo.topics,
      created_at  |-> repo.created_at,
      updated_at  |-> repo.updated_at,
      pushed_at   |-> repo.pushed_at,
      open_issues |-> repo.open_issues,
      license     |-> repo.license,
      readme      |-> repo.readme_content ]

\* format_output with results.insert(0, ...) for results.append(...)
format_output_reversed(cp, repos, p) ==
    LET results == [i \in 1..Len(repos) |-> repo_dict(repos[Len(repos) + 1 - i])]
        out     == [ success      |-> TRUE,
                     count        |-> Len(results),
                     repositories |-> results ]
    IN  IF cp = "agent" /\ Len(results) = 0 /\ p # None
        THEN out @@ [ suggestions |-> _generate_search_suggestions(p[1]),
                      message     |-> MsgNoResults ]
        ELSE out

\* format_output adding the suggestions only when params.fallback_search is true
format_output_if_fallback(cp, repos, p) ==
    LET results == [i \in 1..Len(repos) |-> repo_dict(repos[i])]
        out     == [ success      |-> TRUE,
                     count        |-> Len(results),
                     repositories |-> results ]
    IN  IF cp = "agent" /\ Len(results) = 0 /\ p # None /\ p[1].fallback_search
        THEN out @@ [ suggestions |-> _generate_search_suggestions(p[1]),
                      message     |-> MsgNoResults ]
        ELSE out

format_output(cp, repos, p) ==
    LET results == [i \in 1..Len(repos) |-> repo_dict(repos[i])]
        out     == [ success      |-> TRUE,
                     count        |-> Len(results),
                     repositories |-> results ]
    IN  IF cp = "agent" /\ Len(results) = 0 /\ p # None
        THEN out @@ [ suggestions |-> _generate_search_suggestions(p[1]),
                      message     |-> MsgNoResults ]
        ELSE out

\* issubclass(cls, base) for the exception classes that can reach main
issubclass(cls, base) ==
    \/ cls = base
    \/ base = "Exception"
    \/ base = "ValueError" /\ cls \in {"JSONDecodeError", "UnicodeDecodeError"}
    \/ base = "LookupError" /\ cls = "KeyError"

\* error_type with the except RuntimeError clause of main left out
error_type_no_runtime(cls) ==
    IF issubclass(cls, "ValueError") THEN "validation_error"
    ELSE "unexpected_error"

\* the error_type of the handler of main that catches an exception of class cls
error_type(cls) ==
    IF issubclass(cls, "ValueError") THEN "validation_error"
    ELSE IF issubclass(cls, "RuntimeError") THEN "api_error"
    ELSE "unexpected_error"

error_output(e) ==
    [ success |-> FALSE, error |-> e.message, error_type |-> error_type(e.class) ]

-----------------------------------------------------------------------------
(* The inputs: the JSON document of the invocation and the provider's      *)
(* answers.                                                                *)

ItemA ==
    [ name |-> "a", full_name |-> "o/a", description |-> Some("first"),
      html_url |-> "https://github.com/o/a", stargazers_count |-> 7, forks_count |-> 1,
      language |-> Some("Go"), topics |-> <<"cli">>, created_at |-> "2020",
      updated_at |-> "2021", pushed_at |-> "2022", open_issues_count |-> 2,
      license |-> Some([spdx_id |-> Some("MIT")]) ]

ItemB ==
    [ name |-> "b", full_name |-> "o/b", description |-> None,
      html_url |-> "https://github.com/o/b", stargazers_count |-> 9, forks_count |-> 0,
      language |-> None, created_at |-> "2019",
      updated_at |-> "2023", pushed_at |-> "2023", open_issues_count |-> 0,
      license |-> None ]

\* a provider record without its "name" key
ItemBad ==
    [ full_name |-> "o/c", description |-> None,
      html_url |-> "https://github.com/o/c", stargazers_count |-> 1, forks_count |-> 0,
      language |-> None, topics |-> <<>>, created_at |-> "2018",
      updated_at |-> "2018", pushed_at |-> "2018", open_issues_count |-> 0,
      license |-> None ]

ItemPool == {ItemA, ItemB, ItemBad}

ItemLists == UNION {[1..n -> ItemPool] : n \in 0..MaxItems}

NoBody == [json |-> "invalid"]

SearchResponses ==
    { [kind |-> "transport_error"],
      [kind |-> "response", status |-> 403, body |-> NoBody],
      [kind |-> "response", status |-> 500, body |-> NoBody],
      [kind |-> "response", status |-> 200, body |-> NoBody],
      [kind |-> "response", status |-> 200, body |-> [json |-> "array"]],
      [kind |-> "response", status |-> 200, body |-> [json |-> "object", items |-> None]] }
    \cup { [kind |-> "response", status |-> 200,
            body |-> [json |-> "object", items |-> Some(l)]] : l \in ItemLists }

\* a README text of n characters
Text(n) == [i \in 1..n |-> Digits[(i % 10) + 1]]

Encoded(b64, utf8, text) == [blank |-> FALSE, b64 |-> b64, utf8 |-> utf8, text |-> text]

ReadmeBody(content) == [kind |-> "response", status |-> 200,
                        body |-> [json |-> "object", content |-> content]]

ReadmeFaults ==
    { [kind |-> "transport_error"],
      [kind |-> "response", status |-> 404, body |-> NoBody],
      [kind |-> "response", status |-> 500, body |-> NoBody],
      [kind |-> "response", status |-> 200, body |-> NoBody],
      [kind |-> "response", status |-> 200, body |-> [json |-> "array"]],
      ReadmeBody(Some(Encoded(FALSE, TRUE, <<>>))),
      ReadmeBody(Some(Encoded(TRUE, FALSE, <<>>))) }

ReadmeBlanks == { ReadmeBody(None), ReadmeBody(Some([blank |-> TRUE])) }

ReadmeTexts(lengths) == { ReadmeBody(Some(Encoded(TRUE, TRUE, Text(n)))) : n \in lengths }

\* the answers to a README request during a run of main
ReadmeResponses == ReadmeFaults \cup ReadmeBlanks \cup ReadmeTexts({3})

\* how the answer to a README request went: "failed", "empty" or "text"
fetch_kind(resp) ==
    IF resp \in ReadmeFaults THEN "failed"
    ELSE IF resp \in ReadmeBlanks THEN "empty"
    ELSE "text"

Doc(keywords, language, min_stars, topic, sort_by, max_results, include_readme, fallback) ==
    [ valid |-> TRUE,
      data  |-> [ keywords |-> keywords, language |-> language, min_stars |-> min_stars,
                  topic |-> topic, sort_by |-> sort_by, max_results |-> max_results,
                  include_readme |-> include_readme, fallback_search |-> fallback ] ]

\* the documents of the runs of main
Documents ==
    { [valid |-> FALSE] } \cup
    { Doc(k, l, s, None, o, m, r, f) :
        k \in {None, Some(<<"x">>)},
        l \in {None, Some(<<"g", "o">>)},
        s \in {None, Some(50)},
        o \in {None, Some("bogus")},
        m \in {None, Some(0), Some(3), Some(25)},
        r \in {None, Some(TRUE), Some(FALSE)},
        f \in {None, Some(FALSE)} }

\* whether GitHubSearchTool() succeeds: either, or as fixed beforehand
CreateOutcomes == IF remote = None THEN BOOLEAN ELSE {remote[1].create}

\* the answers the search request can get: any, or the one fixed beforehand
SearchAnswers == IF remote = None THEN SearchResponses ELSE {remote[1].search}

\* the answers the README request for the i-th item can get
ReadmeAnswers(i) == IF remote = None THEN ReadmeResponses ELSE {remote[1].readmes[i]}

-----------------------------------------------------------------------------
(* One run of main().                                                      *)

Raise(class, message) == Some([class |-> class, message |-> message])

Idle ==
    /\ params = None /\ client = "none" /\ closes = 0 /\ calls = <<>>
    /\ search_resp = None
    /\ items = <<>> /\ repositories = <<>> /\ fetches = <<>> /\ output = None
    /\ exc = None /\ stdout = <<>> /\ stderr = <<>> /\ exit_code = None

Init ==
    /\ copy \in {"agent", "scripts"}
    /\ pc = "parse"
    /\ argv \in Documents
    /\ arg = None /\ ret = None
    /\ remote = None /\ earlier = None
    /\ Idle

\* params = parse_parameters(args.parameters)
Parse ==
    /\ pc = "parse"
    /\ IF parse_raises(argv) # None
       THEN /\ exc' = Raise(parse_raises(argv)[1], "invalid parameters")
            /\ pc' = "except"
            /\ UNCHANGED params
       ELSE /\ params' = Some(parse_parameters(copy, argv))
            /\ pc' = "create"
            /\ UNCHANGED exc
    /\ UNCHANGED << copy, argv, remote, earlier, search_resp, client, closes, calls, items,
                    repositories, fetches,
                    output, stdout, stderr, exit_code, arg, ret >>

\* tool = GitHubSearchTool(): the token lookup, then the httpx.Client
CreateTool ==
    /\ pc = "create"
    /\ \E ok \in CreateOutcomes :
         IF ok
         THEN client' = "open" /\ pc' = "search" /\ UNCHANGED exc
         ELSE exc' = Raise("OSError", "token lookup failed") /\ pc' = "except"
              /\ UNCHANGED client
    /\ UNCHANGED << copy, argv, remote, earlier, search_resp, params, closes, calls, items,
                    repositories, fetches,
                    output, stdout, stderr, exit_code, arg, ret >>

\* search_repositories up to its loop: the request and the reading of the answer
Search ==
    /\ pc = "search"
    /\ calls' = Append(calls, search_request(params[1]))
    /\ \E resp \in SearchAnswers :
         /\ search_resp' = Some(resp)
         /\ IF resp.kind = "transport_error"
            THEN exc' = Raise("RuntimeError", "Request failed") /\ pc' = "finally"
                 /\ UNCHANGED items
            ELSE IF ~is_success(resp.status)
            THEN exc' = Raise("RuntimeError", "GitHub API error") /\ pc' = "finally"
                 /\ UNCHANGED items
            ELSE IF resp.body.json = "invalid"
            THEN exc' = Raise("JSONDecodeError", "Expecting value") /\ pc' = "finally"
                 /\ UNCHANGED items
            ELSE IF resp.body.json # "object"
            THEN exc' = Raise("AttributeError", "no attribute get") /\ pc' = "finally"
                 /\ UNCHANGED items
            ELSE items' = get(resp.body.items, <<>>) /\ pc' = "loop" /\ UNCHANGED exc
    /\ UNCHANGED << copy, argv, remote, earlier, params, client, closes, repositories, fetches,
                    output, stdout, stderr, exit_code, arg, ret >>

\* one iteration of the loop of search_repositories over the items
NormalizeItem ==
    /\ pc = "loop"
    /\ Len(repositories) < Len(items)
    /\ LET item == items[Len(repositories) + 1]
       IN  IF ~(RequiredKeys \subseteq DOMAIN item)
           THEN /\ exc' = Raise("KeyError", "name") /\ pc' = "finally"
                /\ UNCHANGED << calls, repositories, fetches >>
           ELSE IF params[1].include_readme
           THEN \E resp \in ReadmeAnswers(Len(repositories) + 1) :
                  /\ calls' = Append(calls, readme_request(item.full_name))
                  /\ repositories' =
                       Append(repositories,
                              [Repository(item) EXCEPT !.readme_content = _fetch_readme(resp)])
                  /\ fetches' = Append(fetches, fetch_kind(resp))
                  /\ UNCHANGED << exc, pc >>
           ELSE /\ repositories' = Append(repositories, Repository(item))
                /\ fetches' = Append(fetches, "off")
                /\ UNCHANGED << calls, exc, pc >>
    /\ UNCHANGED << copy, argv, remote, earlier, params, client, closes, search_resp, items,
                    output, stdout, stderr,
                    exit_code, arg, ret >>

\* the loop is over: search_repositories returns, format_output builds the envelope
FormatOutput ==
    /\ pc = "loop"
    /\ Len(repositories) = Len(items)
    /\ output' = Some(format_output(copy, repositories, params))
    /\ pc' = "finally"
    /\ UNCHANGED << copy, argv, remote, earlier, search_resp, params, client, closes, calls,
                    items, repositories,
                    fetches, exc, stdout, stderr, exit_code, arg, ret >>

\* tool.close() as the last statement of the try block, not in a finally clause
Close_success_only ==
    /\ pc = "finally"
    /\ client' = IF exc = None THEN "closed" ELSE client
    /\ closes' = IF exc = None THEN closes + 1 ELSE closes
    /\ pc' = IF exc = None THEN "print" ELSE "except"
    /\ UNCHANGED << copy, argv, remote, earlier, search_resp, params, calls, items,
                    repositories, fetches,
                    output, exc, stdout, stderr, exit_code, arg, ret >>

\* finally: tool.close()
Close ==
    /\ pc = "finally"
    /\ client' = "closed"
    /\ closes' = closes + 1
    /\ pc' = IF exc = None THEN "print" ELSE "except"
    /\ UNCHANGED << copy, argv, remote, earlier, search_resp, params, calls, items,
                    repositories, fetches, output,
                    exc, stdout, stderr, exit_code, arg, ret >>

\* print(json.dumps(output)): the success envelope on standard output
PrintOutput ==
    /\ pc = "print"
    /\ stdout' = Append(stdout, output[1])
    /\ exit_code' = Some(0)
    /\ pc' = "done"
    /\ UNCHANGED << copy, argv, remote, earlier, search_resp, params, client, closes, calls,
                    items, repositories,
                    fetches, output, exc, stderr, arg, ret >>

\* the except clauses of main: the failure envelope on standard error, exit 1
HandleError ==
    /\ pc = "except"
    /\ stderr' = Append(stderr, error_output(exc[1]))
    /\ exit_code' = Some(1)
    /\ pc' = "done"
    /\ UNCHANGED << copy, argv, remote, earlier, search_resp, params, client, closes, calls,
                    items, repositories,
                    fetches, output, exc, stdout, arg, ret >>

Next ==
    \/ Parse
    \/ CreateTool
    \/ Search
    \/ NormalizeItem
    \/ FormatOutput
    \/ Close
    \/ PrintOutput
    \/ HandleError

Spec == Init /\ [][Next]_vars

\* main is one sequential thread: a step that can run does run
FairSpec == Spec /\ WF_vars(Next)

-----------------------------------------------------------------------------
(* Direct calls of one method, on arguments drawn from wider sets.         *)

Called(entry) ==
    /\ copy \in {"agent", "scripts"}
    /\ pc = entry
    /\ argv = None
    /\ ret = None
    /\ remote = None /\ earlier = None
    /\ Idle

\* the SearchParameters that _build_search_query is called on
QueryParams ==
    { [ keywords |-> k, language |-> l, min_stars |-> s, topic |-> t, sort_by |-> "stars",
        max_results |-> DefaultMaxResults, include_readme |-> TRUE ] :
        k \in {<<"x">>, <<"x", " ", "y">>},
        l \in {None, Some(<<>>), Some(<<"g", "o">>)},
        s \in {-1, 0, 1, 50, 1000},
        t \in {None, Some(<<>>), Some(<<"c", "l", "i">>)} }

InitQuery == Called("call_build_search_query") /\ arg \in {Some(p) : p \in QueryParams}

BuildSearchQuery ==
    /\ pc = "call_build_search_query"
    /\ ret' = Some(_build_search_query(arg[1]))
    /\ pc' = "returned"
    /\ UNCHANGED << copy, argv, remote, earlier, params, client, closes, calls, search_resp,
                    items,
                    repositories, fetches, output, exc, stdout, stderr, exit_code, arg >>

NextQuery == BuildSearchQuery

SpecQuery == InitQuery /\ [][NextQuery]_vars

\* the lengths of the README texts that _fetch_readme is called on
ReadmeLengths == (0..3) \cup {4000} \cup ((max_length - 2)..(max_length + 3)) \cup {6000}

InitReadme ==
    /\ Called("call_fetch_readme")
    /\ arg \in { Some([full_name |-> n, resp |-> r]) :
                   n \in {"o/a", "o/b"},
                   r \in ReadmeFaults \cup ReadmeBlanks \cup ReadmeTexts(ReadmeLengths) }

FetchReadme ==
    /\ pc = "call_fetch_readme"
    /\ calls' = Append(calls, readme_request(arg[1].full_name))
    /\ ret' = Some(_fetch_readme(arg[1].resp))
    /\ pc' = "returned"
    /\ UNCHANGED << copy, argv, remote, earlier, params, client, closes, search_resp, items,
                    repositories, fetches, output, exc, stdout, stderr, exit_code, arg >>

NextReadme == FetchReadme

SpecReadme == InitReadme /\ [][NextReadme]_vars

\* the SearchParameters that _generate_search_suggestions is called on
SuggestParams ==
    { [ keywords |-> k, language |-> l, min_stars |-> n, topic |-> t, sort_by |-> "stars",
        max_results |-> DefaultMaxResults, include_readme |-> TRUE, fallback_search |-> TRUE ] :
        k \in { <<"x">>,
                <<"m", "l", " ", "t", "o", "o", "l", "s">>,
                <<"M", "L", " ", "c", "l", "i">>,
                <<"w", "e", "b", " ", "f", "r", "a", "m", "e", "w", "o", "r", "k", " ",
                  "a", "p", "i">>,
                <<"h", "t", "m", "l", " ", "c", "s", "s", " ", "j", "s", " ", "k", "i", "t">> },
        l \in {None, Some(<<>>), Some(<<"p", "y", "t", "h", "o", "n">>)},
        n \in {0, 100, 101, 500},
        t \in {None, Some(<<>>), Some(<<"c", "l", "i">>)} }

InitSuggest ==
    /\ Called("call_generate_search_suggestions")
    /\ copy = "agent"
    /\ arg \in {Some(p) : p \in SuggestParams}

GenerateSearchSuggestions ==
    /\ pc = "call_generate_search_suggestions"
    /\ ret' = Some(_generate_search_suggestions(arg[1]))
    /\ pc' = "returned"
    /\ UNCHANGED << copy, argv, remote, earlier, params, client, closes, calls, search_resp,
                    items,
                    repositories, fetches, output, exc, stdout, stderr, exit_code, arg >>

NextSuggest == GenerateSearchSuggestions

SpecSuggest == InitSuggest /\ [][NextSuggest]_vars

-----------------------------------------------------------------------------
(* Two runs of main() on documents that differ in fallback_search only,    *)
(* against the same answers of the provider.                               *)

FlagValues == {None, Some(TRUE), Some(FALSE)}

TwinDocuments ==
    { Doc(k, None, None, None, None, None, r, f) :
        k \in {None, Some(<<"x">>)},
        r \in {None, Some(FALSE)},
        f \in FlagValues }

TwinSearchResponses ==
    { [kind |-> "transport_error"],
      [kind |-> "response", status |-> 403, body |-> NoBody],
      [kind |-> "response", status |-> 200, body |-> NoBody] }
    \cup { [kind |-> "response", status |-> 200,
            body |-> [json |-> "object", items |-> Some(l)]] : l \in ItemLists }

TwinReadmeResponses ==
    { [kind |-> "response", status |-> 404, body |-> NoBody],
      ReadmeBody(None) }
    \cup ReadmeTexts({3})

\* the provider's answers, fixed for both runs
Scripts ==
    { [create |-> c, search |-> s, readmes |-> r] :
        c \in BOOLEAN,
        s \in TwinSearchResponses,
        r \in [1..MaxItems -> TwinReadmeResponses] }

InitTwin ==
    /\ copy \in {"agent", "scripts"}
    /\ pc = "parse"
    /\ argv \in TwinDocuments
    /\ arg = None /\ ret = None
    /\ remote \in {Some(s) : s \in Scripts}
    /\ earlier = None
    /\ Idle

\* the process is run again on the document with another fallback_search
Rerun ==
    /\ pc = "done"
    /\ earlier = None
    /\ argv.valid
    /\ earlier' = Some([ argv |-> argv, calls |-> calls, stdout |-> stdout,
                       stderr |-> stderr, exit_code |-> exit_code ])
    /\ \E f \in FlagValues \ {argv.data.fallback_search} :
         argv' = [argv EXCEPT !.data.fallback_search = f]
    /\ pc' = "parse"
    /\ params' = None /\ client' = "none" /\ closes' = 0 /\ calls' = <<>>
    /\ search_resp' = None /\ items' = <<>> /\ repositories' = <<>> /\ fetches' = <<>>
    /\ output' = None /\ exc' = None /\ stdout' = <<>> /\ stderr' = <<>>
    /\ exit_code' = None
    /\ UNCHANGED << copy, remote, arg, ret >>

NextTwin ==
    \/ Next
    \/ Rerun

SpecTwin == InitTwin /\ [][NextTwin]_vars

-----------------------------------------------------------------------------
(* The properties.                                                         *)

\* the envelopes the process has emitted
Emitted == stdout \o stderr

\* the search request got a success status and a JSON object
SearchOk ==
    /\ search_resp # None
    /\ search_resp[1].kind = "response"
    /\ is_success(search_resp[1].status)
    /\ search_resp[1].body.json = "object"

\* the search request failed in the transport or got a non-success status
SearchFailed ==
    /\ search_resp # None
    /\ \/ search_resp[1].kind = "transport_error"
       \/ ~is_success(search_resp[1].status)

WellFormed(l) == \A i \in 1..Len(l) : RequiredKeys \subseteq DOMAIN l[i]

\* C1: in both copies, an emitted envelope has a suggestions field exactly when
\* it is a success envelope with count 0.
C1_SuggestionsIffEmptySuccess ==
    \A k \in 1..Len(Emitted) :
        ("suggestions" \in DOMAIN Emitted[k]) <=> (Emitted[k].success /\ Emitted[k].count = 0)

\* C2: in every success envelope count is the length of repositories, and the
\* repositories are the provider's items, one each, in the provider's order.
C2_CountAndOrder ==
    \A k \in 1..Len(stdout) :
        LET e == stdout[k]
        IN  e.success =>
              /\ e.count = Len(e.repositories)
              /\ Len(e.repositories) = Len(items)
              /\ \A i \in 1..Len(items) :
                   /\ e.repositories[i].full_name = items[i].full_name
                   /\ e.repositories[i].url = items[i].html_url
                   /\ e.repositories[i].stars = items[i].stargazers_count

C2_Witness ==
    \E k \in 1..Len(stdout) :
        /\ stdout[k].count = 2
        /\ stdout[k].repositories[1].full_name # stdout[k].repositories[2].full_name

\* C3: the page size of the search request is within 1..10, is 10 for a
\* max_results above 10, and is the default 5 for a max_results of 0 or absent.
C3_PageSizeClamped ==
    \A k \in 1..Len(calls) :
        calls[k].endpoint = "/search/repositories" =>
            LET m == argv.data.max_results
            IN  /\ calls[k].per_page \in 1..10
                /\ (m # None /\ m[1] > 10) => calls[k].per_page = 10
                /\ (m = None \/ m[1] = 0) => calls[k].per_page = 5

\* C4: a JSON object without the keywords key ends the run with one
\* validation_error failure envelope and exit code 1, and no network request is
\* issued at any point of the run.
C4_MissingKeywords ==
    (argv.valid /\ argv.data.keywords = None) =>
        /\ calls = <<>>
        /\ pc = "done" =>
             /\ exit_code = Some(1)
             /\ stdout = <<>>
             /\ Len(stderr) = 1
             /\ ~stderr[1].success
             /\ stderr[1].error_type = "validation_error"

C4_Witness == pc = "done" /\ argv.valid /\ argv.data.keywords = None /\ stderr # <<>>

\* C5: after a search call that failed in the transport or returned a
\* non-success status no README is fetched and no repository list or success
\* envelope is made, and the run ends with one api_error envelope and exit code 1.
C5_FailedSearchAborts ==
    SearchFailed =>
        /\ Len(calls) = 1
        /\ repositories = <<>>
        /\ output = None
        /\ stdout = <<>>
        /\ pc = "done" =>
             /\ exit_code = Some(1)
             /\ Len(stderr) = 1
             /\ ~stderr[1].success
             /\ stderr[1].error_type = "api_error"
             /\ DOMAIN stderr[1] = {"success", "error", "error_type"}

C5_Witness ==
    /\ pc = "done"
    /\ SearchFailed
    /\ search_resp[1].kind = "response"
    /\ params[1].include_readme

\* C6: a README fetch that failed leaves that repository's readme_content
\* absent and raises nothing: when the search succeeded and every item has its
\* required fields, no exception is in flight whatever the README answers were,
\* and the run ends with a success envelope holding every returned item.
C6_ReadmeFailureNotFatal ==
    /\ \A i \in 1..Len(fetches) : fetches[i] = "failed" => repositories[i].readme_content = None
    /\ (SearchOk /\ WellFormed(items)) =>
         /\ exc = None
         /\ pc = "done" =>
              /\ exit_code = Some(0)
              /\ stderr = <<>>
              /\ Len(stdout) = 1
              /\ stdout[1].success
              /\ stdout[1].count = Len(items)
              /\ \A i \in 1..Len(items) :
                   /\ stdout[1].repositories[i].full_name = items[i].full_name
                   /\ fetches[i] = "failed" => stdout[1].repositories[i].readme = None

C6_Witness ==
    /\ pc = "done"
    /\ stdout # <<>>
    /\ Len(fetches) = 2
    /\ fetches[1] = "failed"
    /\ fetches[2] = "text"
    /\ stdout[1].repositories[2].readme # None

C7_Released ==
    /\ closes = (IF client = "closed" THEN 1 ELSE 0)
    /\ Emitted # <<>> => client # "open"
    /\ pc = "done" => client # "open"
    /\ (pc = "done" /\ parse_raises(argv) # None) => client = "none"

\* C7: an acquired client is closed exactly once on every exit path, before any
\* envelope is emitted; no request is issued once it is closed; a run that fails
\* validation acquires none; and an acquired client is eventually closed.
C7_ClientReleased ==
    /\ []C7_Released
    /\ [][client = "closed" => calls' = calls]_vars
    /\ (client = "open") ~> (client = "closed")

C7_Witness == pc = "done" /\ client = "closed" /\ closes = 1 /\ exc # None /\ stderr # <<>>

\* C8: a successful run issued the search request first and then, when the
\* document asks for READMEs (include_readme true or absent), one README
\* request per item in item order and nothing else (N+1 calls); when it does
\* not, the search request alone, and every readme is absent.
C8_CallSequence ==
    (pc = "done" /\ exit_code = Some(0)) =>
        /\ Len(calls) >= 1
        /\ calls[1].endpoint = "/search/repositories"
        /\ IF get(argv.data.include_readme, TRUE)
           THEN /\ Len(calls) = Len(items) + 1
                /\ \A i \in 1..Len(items) :
                     /\ calls[i + 1].endpoint = "/repos/{full_name}/readme"
                     /\ calls[i + 1].full_name = items[i].full_name
           ELSE /\ Len(calls) = 1
                /\ \A i \in 1..Len(items) : stdout[1].repositories[i].readme = None

C8_Witness ==
    /\ pc = "done"
    /\ exit_code = Some(0)
    /\ Len(items) = 2
    /\ items[1].full_name = items[2].full_name
    /\ fetches[1] = "failed"
    /\ Len(calls) = 3

\* the query of the parts in their fixed order, single spaces between them
QueryOf(p, with_language, with_topic) ==
    p.keywords
    \o (IF with_language THEN <<SP>> \o LanguagePrefix \o p.language[1] ELSE <<>>)
    \o (IF p.min_stars > 0 THEN <<SP>> \o StarsPrefix \o str_int(p.min_stars) ELSE <<>>)
    \o (IF with_topic THEN <<SP>> \o TopicPrefix \o p.topic[1] ELSE <<>>)

ExampleParams ==
    [ keywords |-> <<"x">>, language |-> Some(<<"g", "o">>), min_stars |-> 50,
      topic |-> Some(<<"c", "l", "i">>), sort_by |-> "stars",
      max_results |-> DefaultMaxResults, include_readme |-> TRUE ]

ExampleQuery ==
    <<"x", " ", "l", "a", "n", "g", "u", "a", "g", "e", ":", "g", "o", " ",
      "s", "t", "a", "r", "s", ":", ">", "=", "5", "0", " ",
      "t", "o", "p", "i", "c", ":", "c", "l", "i">>

Decodes(resp) ==
    /\ resp.kind = "response"
    /\ resp.status = 200
    /\ resp.body.json = "object"
    /\ resp.body.content # None
    /\ ~resp.body.content[1].blank
    /\ resp.body.content[1].b64
    /\ resp.body.content[1].utf8

\* C10: a decoded README of more than 5000 characters is returned as its first
\* 5000 characters followed by the truncation marker; one of 1 to 5000
\* characters is returned as it is.
C10_Truncation ==
    (pc = "returned" /\ Decodes(arg[1].resp)) =>
        LET text == arg[1].resp.body.content[1].text
            r    == ret[1]
        IN  /\ Len(text) > 5000 =>
                 /\ r # None
                 /\ Len(r[1]) = 5000 + Len(TruncationMarker)
                 /\ SubSeq(r[1], 1, 5000) = SubSeq(text, 1, 5000)
                 /\ SubSeq(r[1], 5001, Len(r[1])) = TruncationMarker
            /\ (0 < Len(text) /\ Len(text) <= 5000) => r = Some(text)

C10_Witness ==
    /\ pc = "returned"
    /\ Decodes(arg[1].resp)
    /\ Len(arg[1].resp.body.content[1].text) = 5001
    /\ Len(ret[1][1]) = 5000 + Len(TruncationMarker)

\* s starts with pre
HasPrefix(s, pre) == Len(s) >= Len(pre) /\ SubSeq(s, 1, Len(pre)) = pre

\* the heuristic a suggestion comes from, by its fixed opening words
Kind(s) ==
    IF HasPrefix(s, MsgExpand) THEN "abbreviation"
    ELSE IF HasPrefix(s, MsgLowerFrom) THEN "stars"
    ELSE IF HasPrefix(s, MsgNoLanguage) THEN "language"
    ELSE IF HasPrefix(s, MsgFewer) THEN "keywords"
    ELSE IF HasPrefix(s, MsgTopic) THEN "topic"
    ELSE "generic"

\* a whitespace token of the lowercased keywords is a key of the abbreviations
HasAbbreviation(p) ==
    \E i \in 1..Len(abbreviations) : member(abbreviations[i][1], split(lower(p.keywords)))

\* a key of the topic mapping occurs in the lowercased keywords
HasMappedTopic(p) ==
    \E i \in 1..Len(topic_suggestions) : contains(lower(p.keywords), topic_suggestions[i][1])

\* the heuristics that fire, in their fixed order
KindsOf(p, language_set, topic_set) ==
    (IF HasAbbreviation(p) THEN <<"abbreviation">> ELSE <<>>)
    \o (IF p.min_stars > 100 THEN <<"stars">> ELSE <<>>)
    \o (IF language_set THEN <<"language">> ELSE <<>>)
    \o (IF Len(split(p.keywords)) > 2 THEN <<"keywords">> ELSE <<>>)
    \o (IF ~topic_set /\ HasMappedTopic(p) THEN <<"topic">> ELSE <<>>)

\* the star relief suggestion names min_stars, min_stars // 2 and 50
StarsNamed(p, r) ==
    \A i \in 1..Len(r) :
        Kind(r[i]) = "stars" =>
            r[i] = MsgLowerFrom \o str_int(p.min_stars) \o MsgTo
                   \o str_int(p.min_stars \div 2) \o MsgOr50

\* the suggestions are those of the heuristics that fire, one each, in order
SuggestionsAre(p, r, kinds) ==
    IF kinds = <<>>
    THEN \A i \in 1..Len(r) : Kind(r[i]) = "generic"
    ELSE [i \in 1..Len(r) |-> Kind(r[i])] = kinds /\ StarsNamed(p, r)

SuggestExample ==
    [ keywords |-> <<"m", "l", " ", "t", "o", "o", "l", "s">>,
      language |-> Some(<<"p", "y", "t", "h", "o", "n">>), min_stars |-> 500,
      topic |-> None, sort_by |-> "stars", max_results |-> DefaultMaxResults,
      include_readme |-> TRUE, fallback_search |-> TRUE ]

SuggestExampleResult ==
    <<
      <<"T", "r", "y", " ", "e", "x", "p", "a", "n", "d", "i", "n", "g", " ", "a", "b", "b",
        "r", "e", "v", "i", "a", "t", "i", "o", "n", "s", ":", " ", "\"", "m", "a", "c",
        "h", "i", "n", "e", " ", "l", "e", "a", "r", "n", "i", "n", "g", " ", "t", "o", "o",
        "l", "s", "\"">>,
      <<"T", "r", "y", " ", "l", "o", "w", "e", "r", "i", "n", "g", " ", "m", "i", "n", "_",
        "s", "t", "a", "r", "s", " ", "f", "r", "o", "m", " ", "5", "0", "0", " ", "t", "o",
        " ", "2", "5", "0", " ", "o", "r", " ", "5", "0">>,
      <<"T", "r", "y", " ", "s", "e", "a", "r", "c", "h", "i", "n", "g", " ", "w", "i", "t",
        "h", "o", "u", "t", " ", "t", "h", "e", " ", "l", "a", "n", "g", "u", "a", "g", "e",
        " ", "f", "i", "l", "t", "e", "r", " ", "(", "r", "e", "m", "o", "v", "e", " ", "l",
        "a", "n", "g", "u", "a", "g", "e", ":", " ", "\"", "p", "y", "t", "h", "o", "n",
        "\"", ")">>
    >>

C13_GenericFallback ==
    pc = "returned" =>
        LET r     == ret[1]
            fired == KindsOf(arg[1], arg[1].language \notin {None, Some(<<>>)},
                             arg[1].topic \notin {None, Some(<<>>)})
        IN  /\ (r = <<MsgGeneral, MsgSpelling>>) <=> (fired = <<>>)
            /\ fired # <<>> => \A i \in 1..Len(r) : r[i] \notin {MsgGeneral, MsgSpelling}
            /\ Len(r) \in 1..5

C13_Witness ==
    /\ pc = "returned"
    /\ arg[1].keywords = <<"x">>
    /\ arg[1].topic = Some(<<"c", "l", "i">>)
    /\ ret[1] = <<MsgGeneral, MsgSpelling>>

\* C14: a validation_error envelope is emitted only when parsing the input
\* parameters failed, hence only in a run that issued no network request.
C14_ValidationOnlyFromParsing ==
    \A k \in 1..Len(stderr) :
        stderr[k].error_type = "validation_error" =>
            /\ parse_raises(argv) # None
            /\ calls = <<>>

=============================================================================
